---------------------------- MODULE Spec2Model ----------------------------
(***************************************************************************)
(* Model of device-rotation-test.js: the argument validator, the rotation  *)
(* loop (runTests), one DeviceTester session (test / cleanup), the         *)
(* interruptible sleep and the signal handler (gracefulShutdown).          *)
(*                                                                         *)
(* The program is a single-threaded event loop.  A model step is one run   *)
(* of a callback up to its next await.  States in which the main flow is   *)
(* between two awaits without yielding to the event loop ("loop", a        *)
(* session at "returned") are kept visible, and no event (signal, timer,   *)
(* browser event) is delivered in them.                                    *)
(***************************************************************************)
EXTENDS Integers, Sequences, FiniteSets, TLC

(* ------------------------------ bounds --------------------------------- *)
\* CONFIG.MAX_ITERATIONS (1000 in the source), scaled down.
MAX_ITERATIONS == 6
\* CONFIG.INTERVAL / poll period (60000 / 1000 in the source), scaled down.
SleepTicks == 2

(* ------------------------- program constants --------------------------- *)
\* DEVICE_PROFILES.length
NumProfiles == 5
\* exit code of validateArguments' failures
ExitFailure == 1
\* exit code of the grace timer and of a drained event loop
ExitSuccess == 0
\* first status the response observer and loadPage treat as an error
HTTP_ERROR_MIN == 400

\* exitCode while the process is still running
Running == -1

Null == "null"
Handle == "handle"
Resources == {"page", "context", "browser"}

\* Statuses a response can carry in the model.
Statuses == {200, 404, 500}

(* ------------------------------ strings -------------------------------- *)
\* A string is the sequence of its characters.
HttpPrefix == <<"h", "t", "t", "p", ":", "/", "/">>
HttpsPrefix == <<"h", "t", "t", "p", "s", ":", "/", "/">>

\* String.prototype.startsWith
startsWith(s, p) == Len(s) >= Len(p) /\ SubSeq(s, 1, Len(p)) = p

\* process.argv.slice(2): the command lines the model starts from.
Argvs ==
    { <<>>,
      << <<>> >>,
      << <<"f", "t", "p", ":", "/", "/", "a">> >>,
      << <<"h", "t", "t", "p", ":", "/", "a">> >>,
      << <<"h", "t", "t", "p", "s", ":", "a">> >>,
      << <<"a", "h", "t", "t", "p", ":", "/", "/">> >>,
      << HttpPrefix \o <<"a">> >>,
      << HttpsPrefix \o <<"a">> >> }

VARIABLES
    argv,            \* process.argv.slice(2)
    mainPc,          \* position of the main flow (IIFE / runTests)
    exitCode,        \* Running, or the code the process exited with
    isShuttingDown,  \* the Shutdown Flag
    currentTest,     \* Null, or Handle when it refers to the session `tester`
    graceTimer,      \* some setTimeout(() => process.exit(0), 2000) is pending
    iteration, successCount, errorCount,
    successRate,     \* last printed success rate, in tenths of a percent (-1: none)
    tester,          \* the DeviceTester of the running iteration
    timeoutPending,  \* sleep's one-shot setTimeout is pending
    liveIntervals,   \* setInterval timers not cleared (current sleep's and leaked)
    ticks,           \* poll ticks of the current sleep that found the flag unset
    waitEnd,         \* history: how the last sleep returned (none, expired, interrupted)
    exitDuring,      \* history: what process.exit cut short (none before an exit)
    visits,          \* history: profile index of every session constructed
    nSuccess, nError \* history: sessions that ended with status success / error

vars == <<argv, mainPc, exitCode, isShuttingDown, currentTest, graceTimer,
          iteration, successCount, errorCount, successRate, tester,
          timeoutPending, liveIntervals, ticks, waitEnd, exitDuring, visits, nSuccess,
          nError>>

procVars == <<argv, exitCode, isShuttingDown, graceTimer, exitDuring>>
loopVars == <<mainPc, currentTest, iteration, successCount, errorCount, successRate,
              visits, nSuccess, nError>>
sleepVars == <<timeoutPending, liveIntervals, ticks, waitEnd>>

(* --------------------------- DeviceTester ------------------------------ *)
\* Await points of test(): the operation whose completion the session waits for.
AwaitPcs == {"access", "mkdir", "launch", "newContext", "newPage", "goto",
             "waitForTimeout", "screenshot", "title", "errorScreenshot", "cleanup"}

\* constructor(profile, iteration, targetUrl), plus the state of the browser-side
\* objects and the history the properties read.
NewTester(profile, iter, url) ==
    [ profile |-> profile, iteration |-> iter, targetUrl |-> url,
      browser |-> Null, context |-> Null, page |-> Null,
      cleanupCalled |-> FALSE,
      testResults |-> [status |-> "unknown", error |-> Null,
                       screenshotTaken |-> FALSE, httpStatus |-> 0],
      pc |-> "new",
      ret |-> "pending",
      closeCalls |-> [r \in Resources |-> 0],
      closeState |-> [r \in Resources |-> "open"],
      navOutcome |-> "none", navStatus |-> 0, lateStatus |-> 0,
      captures |-> 0, errorShots |-> 0, infoCollected |-> FALSE, cleanupBy |-> {} ]

\* No session exists (before the first and after the last iteration).
NoTester == [NewTester(0, 0, <<>>) EXCEPT !.pc = "none"]

\* The resources whose closing also closes r (Playwright closes a browser's
\* contexts and a context's pages with it).
Owners(r) ==
    IF r = "page" THEN {"page", "context", "browser"}
    ELSE IF r = "context" THEN {"context", "browser"}
    ELSE {"browser"}

\* r has been closed: page.isClosed() for the page; operations on r reject.
isClosed(t, r) == \E o \in Owners(r) : t.closeState[o] = "closed"

\* cleanup() without its cleanupCalled guard.
cleanupTasksUnguarded(t) ==
    { r \in Resources :
        /\ t[r] # Null
        /\ (r = "page" => ~isClosed(t, "page")) }

\* cleanup() whose three tests are chained with else: only the first resource
\* held is closed.
cleanupTasksElseIf(t) ==
    IF t.cleanupCalled THEN {}
    ELSE IF t.page # Null /\ ~isClosed(t, "page") THEN {"page"}
    ELSE IF t.context # Null THEN {"context"}
    ELSE IF t.browser # Null THEN {"browser"}
    ELSE {}

\* The close() calls one invocation of cleanup() pushes onto cleanupTasks.
cleanupTasks(t) ==
    IF t.cleanupCalled THEN {}
    ELSE { r \in Resources :
             /\ t[r] # Null
             /\ (r = "page" => ~isClosed(t, "page")) }

\* cleanup(), up to its await: the guard, the flag and the close() calls.
\* (by: the caller, kept as history.)
cleanup(t, by) ==
    LET tasks == cleanupTasks(t) IN
    [t EXCEPT !.cleanupCalled = TRUE,
              !.cleanupBy = @ \cup {by},
              !.closeCalls = [r \in Resources |-> IF r \in tasks THEN @[r] + 1 ELSE @[r]],
              !.closeState = [r \in Resources |-> IF r \in tasks THEN "closing" ELSE @[r]]]

\* test()'s finally block after `return ret`: await this.cleanup().  The await
\* yields to the event loop only if this invocation has closes to wait for.
Finally(t, ret) ==
    [cleanup(t, "finally") EXCEPT !.ret = ret,
                       !.pc = IF cleanupTasks(t) # {} THEN "cleanup" ELSE "returned"]

\* takeErrorScreenshot() that returns without a screenshot in every case.
takeErrorScreenshotSkipped(t) == Finally(t, "false")

\* takeErrorScreenshot(), up to its await.
takeErrorScreenshot(t) ==
    IF t.page = Null
    THEN Finally(t, "false")
    ELSE [t EXCEPT !.pc = "errorScreenshot", !.errorShots = @ + 1]

\* test() without a catch block: the failure runs finally and leaves test() as
\* an exception.
CatchNone(t, err) == Finally(t, "thrown")

\* test()'s catch block: an aborting failure with message err.
Catch(t, err) ==
    takeErrorScreenshot([t EXCEPT !.testResults.status = "error",
                                  !.testResults.error = err])

\* A response observer that also marks the session as failed.
onResponseFails(t, status) ==
    IF status >= HTTP_ERROR_MIN
    THEN [t EXCEPT !.testResults.httpStatus = status,
                   !.testResults.status = "error",
                   !.lateStatus = IF t.pc = "goto" THEN @ ELSE status]
    ELSE t

\* The response observer of setupEventHandlers.
onResponse(t, status) ==
    IF status >= HTTP_ERROR_MIN
    THEN [t EXCEPT !.testResults.httpStatus = status,
                   !.lateStatus = IF t.pc = "goto" THEN @ ELSE status]
    ELSE t

\* loadPage() that does not throw on a status >= 400.
loadPageNoThrow(t, kind, status) ==
    LET n == [t EXCEPT !.navOutcome = kind] IN
    IF kind = "response"
    THEN [n EXCEPT !.testResults.httpStatus = status, !.navStatus = status,
                   !.pc = "waitForTimeout"]
    ELSE IF kind = "timeout"
    THEN [n EXCEPT !.pc = "waitForTimeout"]
    ELSE Catch(n, "goto")

\* loadPage() that rethrows every error of page.goto, TimeoutError included.
loadPageTimeoutFatal(t, kind, status) ==
    LET n == [t EXCEPT !.navOutcome = kind] IN
    IF kind = "response"
    THEN LET r == [n EXCEPT !.testResults.httpStatus = status, !.navStatus = status] IN
         IF status >= HTTP_ERROR_MIN
         THEN Catch(r, "HTTP")
         ELSE [r EXCEPT !.pc = "waitForTimeout"]
    ELSE Catch(n, "goto")

\* loadPage() whose catch swallows every error of page.goto, not only a
\* TimeoutError.
loadPageSwallowAll(t, kind, status) ==
    LET n == [t EXCEPT !.navOutcome = kind] IN
    IF kind = "response"
    THEN LET r == [n EXCEPT !.testResults.httpStatus = status, !.navStatus = status] IN
         IF status >= HTTP_ERROR_MIN
         THEN Catch(r, "HTTP")
         ELSE [r EXCEPT !.pc = "waitForTimeout"]
    ELSE [n EXCEPT !.pc = "waitForTimeout"]

\* loadPage() after page.goto settled with `kind` (and `status` for a response).
loadPage(t, kind, status) ==
    LET n == [t EXCEPT !.navOutcome = kind] IN
    IF kind = "response"
    THEN LET r == [n EXCEPT !.testResults.httpStatus = status, !.navStatus = status] IN
         IF status >= HTTP_ERROR_MIN
         THEN Catch(r, "HTTP")
         ELSE [r EXCEPT !.pc = "waitForTimeout"]
    ELSE IF kind = "timeout"
    THEN [n EXCEPT !.pc = "waitForTimeout"]
    ELSE Catch(n, "goto")

(* ---------------------------- rotation loop ---------------------------- *)
\* The rotation index taken modulo one less than the catalog length.
profileIndexShort(i) == i % (NumProfiles - 1)

\* iteration % DEVICE_PROFILES.length
profileIndex(i) == i % NumProfiles

\* A loop condition that admits the iteration equal to the cap.
loopConditionInclusive(flag, i) == ~flag /\ i <= MAX_ITERATIONS

\* A loop condition that does not read the Shutdown Flag.
loopConditionNoFlag(flag, i) == i < MAX_ITERATIONS

\* The while condition of runTests, also the condition of the inter-visit wait.
loopCondition(flag, i) == ~flag /\ i < MAX_ITERATIONS

\* runTests that does not await tester.test(): it goes on as soon as test() has
\* been called.
testReturnedUnawaited(t) == t.pc # "none"

\* `await tester.test()` of runTests: the promise test() returned is resolved.
testReturned(t) == t.pc = "returned"

\* Every visit counted as a success.
succeededAlways(t) == TRUE

\* `if (success)` of runTests: the value test() resolved to.
succeeded(t) == t.ret = "true"

\* ((successCount / totalTests) * 100).toFixed(1), in tenths of a percent:
\* one decimal, ties rounded up.
successRateOf(s, total) == (2 * 1000 * s + total) \div (2 * total)

(* --------------------------- validateArguments ------------------------- *)
\* process.argv[2] is undefined or the empty string
urlMissing(a) == Len(a) = 0 \/ a[1] = <<>>

\* A scheme check that compares the first four characters only.
schemeAcceptedLoose(url) == startsWith(url, <<"h", "t", "t", "p">>)

\* !(!url.startsWith('http://') && !url.startsWith('https://'))
schemeAccepted(url) == startsWith(url, HttpPrefix) \/ startsWith(url, HttpsPrefix)

(* -------------------------------- Init --------------------------------- *)
Init ==
    /\ argv \in Argvs
    /\ mainPc = "start"
    /\ exitCode = Running
    /\ isShuttingDown = FALSE
    /\ currentTest = Null
    /\ graceTimer = FALSE
    /\ iteration = 0 /\ successCount = 0 /\ errorCount = 0
    /\ successRate = -1
    /\ tester = NoTester
    /\ timeoutPending = FALSE /\ liveIntervals = 0 /\ ticks = 0 /\ waitEnd = "none"
    /\ visits = <<>> /\ nSuccess = 0 /\ nError = 0
    /\ exitDuring = "none"

\* Nothing keeps the event loop alive once the main flow has returned: no grace
\* timer and no interval timer is pending (node then exits with code 0).
eventLoopEmpty(grace, intervals) == ~grace /\ intervals = 0

\* The event loop is idle: the main flow waits at an await, so a timer, a signal
\* or a browser event can be delivered.
Quiescent ==
    /\ exitCode = Running
    /\ \/ mainPc \in {"mkdir", "sleep", "returned"}
       \/ mainPc = "test" /\ tester.pc \in AwaitPcs

\* A session step: the operation awaited at `pc` settles.
Awaiting(pc) == exitCode = Running /\ mainPc = "test" /\ tester.pc = pc

(* ------------------------------- startup ------------------------------- *)
\* The module's synchronous start: runTests calls validateArguments, prints the
\* banner and reaches `await fs.mkdir`.
validateArguments ==
    /\ exitCode = Running /\ mainPc = "start"
    /\ IF urlMissing(argv) \/ ~schemeAccepted(argv[1])
       THEN exitCode' = ExitFailure /\ mainPc' = mainPc /\ exitDuring' = "startup"
       ELSE exitCode' = exitCode /\ mainPc' = "mkdir" /\ exitDuring' = exitDuring
    /\ UNCHANGED <<argv, isShuttingDown, graceTimer, currentTest, iteration,
                   successCount, errorCount, successRate, visits, nSuccess, nError,
                   tester, sleepVars>>

\* fs.mkdir of runTests settles; a failure is logged only.
mkdirDone ==
    /\ exitCode = Running /\ mainPc = "mkdir"
    /\ mainPc' = "loop"
    /\ UNCHANGED <<procVars, currentTest, iteration, successCount, errorCount,
                   successRate, visits, nSuccess, nError, tester, sleepVars>>

\* The while test of runTests; when it holds: new DeviceTester, currentTest =
\* tester, and test() up to `await fs.access`.
loopHead ==
    /\ exitCode = Running /\ mainPc = "loop"
    /\ IF loopCondition(isShuttingDown, iteration)
       THEN /\ tester' = [NewTester(profileIndex(iteration), iteration, argv[1])
                            EXCEPT !.pc = "access"]
            /\ currentTest' = Handle
            /\ visits' = Append(visits, profileIndex(iteration))
            /\ mainPc' = "test"
            /\ UNCHANGED <<exitCode, exitDuring>>
       ELSE /\ mainPc' = "returned"
            /\ exitCode' = IF eventLoopEmpty(graceTimer, liveIntervals)
                            THEN ExitSuccess ELSE exitCode
            /\ exitDuring' = IF eventLoopEmpty(graceTimer, liveIntervals)
                              THEN "idle" ELSE exitDuring
            /\ UNCHANGED <<tester, currentTest, visits>>
    /\ UNCHANGED <<argv, isShuttingDown, graceTimer, iteration, successCount,
                   errorCount, successRate, nSuccess, nError, sleepVars>>

(* --------------------------- session steps ----------------------------- *)
sessionFrame == <<procVars, loopVars, sleepVars>>

\* ensureScreenshotDir: fs.access settles; on failure fs.mkdir is awaited.
\* On success test() calls chromium.launch.
accessDone ==
    /\ Awaiting("access")
    /\ \E ok \in BOOLEAN :
         tester' = [tester EXCEPT !.pc = IF ok THEN "launch" ELSE "mkdir"]
    /\ UNCHANGED sessionFrame

\* ensureScreenshotDir: fs.mkdir settles; its rejection escapes to test()'s catch.
ensureMkdirDone ==
    /\ Awaiting("mkdir")
    /\ \E ok \in BOOLEAN :
         tester' = IF ok THEN [tester EXCEPT !.pc = "launch"]
                         ELSE Catch(tester, "mkdir")
    /\ UNCHANGED sessionFrame

\* chromium.launch settles: this.browser is assigned, browser.newContext called.
launchDone ==
    /\ Awaiting("launch")
    /\ \E ok \in BOOLEAN :
         tester' = IF ok THEN [tester EXCEPT !.browser = Handle, !.pc = "newContext"]
                         ELSE Catch(tester, "launch")
    /\ UNCHANGED sessionFrame

\* browser.newContext settles: this.context is assigned, context.newPage called.
newContextDone ==
    /\ Awaiting("newContext")
    /\ \E ok \in BOOLEAN :
         /\ ok => ~isClosed(tester, "browser")
         /\ tester' = IF ok THEN [tester EXCEPT !.context = Handle, !.pc = "newPage"]
                            ELSE Catch(tester, "newContext")
    /\ UNCHANGED sessionFrame

\* context.newPage settles: this.page is assigned, the observers are attached
\* and loadPage calls page.goto.
newPageDone ==
    /\ Awaiting("newPage")
    /\ \E ok \in BOOLEAN :
         /\ ok => ~isClosed(tester, "context")
         /\ tester' = IF ok THEN [tester EXCEPT !.page = Handle, !.pc = "goto"]
                            ELSE Catch(tester, "newPage")
    /\ UNCHANGED sessionFrame

\* page.goto settles: with a response, with a TimeoutError or with another
\* error.  (It resolves to null only for about:blank and same-document
\* navigations, which a validated http(s) URL on a new page never is.)
gotoDone ==
    /\ Awaiting("goto")
    /\ \E kind \in {"response", "timeout", "error"}, status \in Statuses :
         /\ kind = "response" => ~isClosed(tester, "page")
         /\ tester' = loadPage(tester, kind, status)
    /\ UNCHANGED sessionFrame

\* page.waitForTimeout(SDK_WAIT) settles; then takeScreenshot calls page.screenshot.
waitForTimeoutDone ==
    /\ Awaiting("waitForTimeout")
    /\ \E ok \in BOOLEAN :
         /\ ok => ~isClosed(tester, "page")
         /\ tester' = IF ok THEN [tester EXCEPT !.pc = "screenshot", !.captures = @ + 1]
                            ELSE Catch(tester, "waitForTimeout")
    /\ UNCHANGED sessionFrame

\* takeScreenshot without its try/catch: a failing page.screenshot reaches
\* test()'s catch block.
screenshotDoneThrows ==
    /\ Awaiting("screenshot")
    /\ \E ok \in BOOLEAN :
         /\ ok => ~isClosed(tester, "page")
         /\ tester' = IF ok THEN [tester EXCEPT !.testResults.screenshotTaken = TRUE,
                                                !.pc = "title"]
                            ELSE Catch(tester, "screenshot")
    /\ UNCHANGED sessionFrame

\* takeScreenshot: page.screenshot settles (a failure is logged); then
\* collectPageInfo calls page.title.
screenshotDone ==
    /\ Awaiting("screenshot")
    /\ \E ok \in BOOLEAN :
         /\ ok => ~isClosed(tester, "page")
         /\ tester' = [tester EXCEPT !.testResults.screenshotTaken = ok, !.pc = "title"]
    /\ UNCHANGED sessionFrame

\* collectPageInfo: page.title settles (a failure is logged); test() sets the
\* status to success and returns true through finally.
titleDone ==
    /\ Awaiting("title")
    /\ \E ok \in BOOLEAN :
         /\ ok => ~isClosed(tester, "page")
         /\ tester' = Finally([tester EXCEPT !.testResults.status = "success",
                                             !.infoCollected = ok], "true")
    /\ UNCHANGED sessionFrame

\* takeErrorScreenshot: page.screenshot settles (a failure is logged); test()
\* returns false through finally.
errorScreenshotDone ==
    /\ Awaiting("errorScreenshot")
    /\ \E ok \in BOOLEAN :
         /\ ok => ~isClosed(tester, "page")
         /\ tester' = Finally(tester, "false")
    /\ UNCHANGED sessionFrame

\* A close() issued by cleanup settles, fulfilled or rejected (then logged).
closeSettled ==
    /\ Quiescent /\ mainPc = "test"
    /\ \E r \in Resources, ok \in BOOLEAN :
         /\ tester.closeState[r] = "closing"
         /\ tester' = [tester EXCEPT !.closeState[r] = IF ok THEN "closed" ELSE "failed"]
    /\ UNCHANGED sessionFrame

\* Promise.allSettled(cleanupTasks) of test()'s own cleanup resolves: test() returns.
cleanupDone ==
    /\ Awaiting("cleanup")
    /\ \A r \in Resources : tester.closeState[r] # "closing"
    /\ tester' = [tester EXCEPT !.pc = "returned"]
    /\ UNCHANGED sessionFrame

\* The page emits 'response' while the session waits at an await.
response ==
    /\ Quiescent /\ mainPc = "test"
    /\ tester.page # Null /\ ~isClosed(tester, "page")
    /\ \E status \in Statuses : tester' = onResponse(tester, status)
    /\ UNCHANGED sessionFrame

\* The page emits 'console': the observer logs messages of type error.
consoleMessage ==
    /\ Quiescent /\ mainPc = "test"
    /\ tester.page # Null /\ ~isClosed(tester, "page")
    /\ UNCHANGED vars

\* The page emits 'pageerror': the observer logs the error.
pageError ==
    /\ Quiescent /\ mainPc = "test"
    /\ tester.page # Null /\ ~isClosed(tester, "page")
    /\ UNCHANGED vars

(* ------------------------ after a visit, sleep ------------------------- *)
\* runTests after `await tester.test()`: currentTest = null, the counters, the
\* summary, iteration++ and, when the loop goes on, sleep(INTERVAL) up to its
\* promise: both timers are created.
afterTest ==
    /\ exitCode = Running /\ mainPc = "test" /\ testReturned(tester)
    /\ currentTest' = Null
    /\ successCount' = IF succeeded(tester) THEN successCount + 1 ELSE successCount
    /\ errorCount' = IF succeeded(tester) THEN errorCount ELSE errorCount + 1
    /\ successRate' = successRateOf(successCount', iteration + 1)
    /\ iteration' = iteration + 1
    /\ nSuccess' = IF tester.testResults.status = "success" THEN nSuccess + 1 ELSE nSuccess
    /\ nError' = IF tester.testResults.status = "error" THEN nError + 1 ELSE nError
    /\ tester' = NoTester
    /\ IF loopCondition(isShuttingDown, iteration')
       THEN /\ mainPc' = "sleep"
            /\ timeoutPending' = TRUE
            /\ liveIntervals' = liveIntervals + 1
            /\ ticks' = 0
            /\ waitEnd' = "none"
       ELSE /\ mainPc' = "loop"
            /\ UNCHANGED sleepVars
    /\ UNCHANGED <<procVars, visits>>

\* A checkInterval callback that never looks at the flag.
pollTickBlind ==
    /\ Quiescent /\ mainPc = "sleep" /\ ticks < SleepTicks
    /\ ticks' = ticks + 1
    /\ UNCHANGED <<timeoutPending, liveIntervals, waitEnd, mainPc>>
    /\ UNCHANGED <<procVars, currentTest, iteration, successCount, errorCount,
                   successRate, visits, nSuccess, nError, tester>>

\* sleep's checkInterval callback fires.
pollTick ==
    /\ Quiescent /\ mainPc = "sleep" /\ ticks < SleepTicks
    /\ IF isShuttingDown
       THEN /\ timeoutPending' = FALSE
            /\ liveIntervals' = liveIntervals - 1
            /\ waitEnd' = "interrupted"
            /\ mainPc' = "loop"
            /\ ticks' = ticks
       ELSE /\ ticks' = ticks + 1
            /\ UNCHANGED <<timeoutPending, liveIntervals, waitEnd, mainPc>>
    /\ UNCHANGED <<procVars, currentTest, iteration, successCount, errorCount,
                   successRate, visits, nSuccess, nError, tester>>

\* sleep's setTimeout(resolve, ms) fires, once the interval has elapsed; the
\* checkInterval timer stays armed.
timeoutFire ==
    /\ Quiescent /\ mainPc = "sleep" /\ timeoutPending /\ ticks >= SleepTicks - 1
    /\ timeoutPending' = FALSE
    /\ waitEnd' = "expired"
    /\ ticks' = 0
    /\ mainPc' = "loop"
    /\ UNCHANGED <<procVars, currentTest, iteration, successCount, errorCount,
                   successRate, visits, nSuccess, nError, tester, liveIntervals>>

\* checkInterval timers of sleeps that have already returned
leaked == liveIntervals - (IF mainPc = "sleep" THEN 1 ELSE 0)

\* A poll period passes for the checkInterval timers of the sleeps that have
\* already returned: the callback of each fires once, and clears its own timer
\* only when the flag is set.
leakedTick ==
    /\ Quiescent /\ leaked > 0
    /\ liveIntervals' = IF isShuttingDown THEN liveIntervals - leaked ELSE liveIntervals
    /\ IF mainPc = "returned" /\ eventLoopEmpty(graceTimer, liveIntervals')
       THEN exitCode' = ExitSuccess /\ exitDuring' = "idle"
       ELSE UNCHANGED <<exitCode, exitDuring>>
    /\ UNCHANGED <<argv, isShuttingDown, graceTimer, loopVars, tester,
                   timeoutPending, ticks, waitEnd>>

(* ------------------------------ shutdown ------------------------------- *)
\* gracefulShutdown without its setTimeout(() => process.exit(0), 2000).
gracefulShutdownNoTimer ==
    /\ isShuttingDown' = TRUE
    /\ tester' = IF currentTest # Null THEN cleanup(tester, "signal") ELSE tester
    /\ graceTimer' = graceTimer

\* gracefulShutdown(signal): the handler of SIGINT and SIGTERM.
gracefulShutdown ==
    /\ isShuttingDown' = TRUE
    /\ tester' = IF currentTest # Null THEN cleanup(tester, "signal") ELSE tester
    /\ graceTimer' = TRUE

\* The environment delivers SIGINT or SIGTERM.
signal ==
    /\ Quiescent
    /\ gracefulShutdown
    /\ UNCHANGED <<argv, exitCode, exitDuring, loopVars, sleepVars>>

\* What the process is doing when process.exit is called.
activity ==
    IF mainPc = "test"
    THEN IF \E r \in Resources : tester.closeState[r] = "closing"
         THEN "closing" ELSE "session"
    ELSE IF mainPc = "sleep" THEN "wait" ELSE "idle"

\* The first pending grace timer fires: process.exit(0).  The process is gone, and with it its
\* timers and the session's objects.
graceTimerFire ==
    /\ Quiescent /\ graceTimer
    /\ exitCode' = ExitSuccess
    /\ exitDuring' = activity
    /\ graceTimer' = FALSE
    /\ tester' = NoTester
    /\ timeoutPending' = FALSE /\ liveIntervals' = 0
    /\ UNCHANGED <<argv, isShuttingDown, loopVars, ticks, waitEnd>>

(* ---------------------------- specification ---------------------------- *)
Next ==
    \/ validateArguments
    \/ mkdirDone
    \/ loopHead
    \/ accessDone
    \/ ensureMkdirDone
    \/ launchDone
    \/ newContextDone
    \/ newPageDone
    \/ gotoDone
    \/ waitForTimeoutDone
    \/ screenshotDone
    \/ titleDone
    \/ errorScreenshotDone
    \/ closeSettled
    \/ cleanupDone
    \/ response
    \/ consoleMessage
    \/ pageError
    \/ afterTest
    \/ pollTick
    \/ timeoutFire
    \/ leakedTick
    \/ signal
    \/ graceTimerFire

Spec == Init /\ [][Next]_vars

\* The grace timer is a node timer: once armed it fires; and the main flow's
\* continuation of a settled await (loopHead, afterTest) runs in the same turn of
\* the event loop.  Nothing else is assumed to make progress (browser operations
\* may hang).
\* It starts from one accepted command line: a rejected one exits before any
\* handler can run, and the runs of two accepted URLs differ in targetUrl only.
GraceInit == Init /\ argv = << HttpsPrefix \o <<"a">> >>

GraceSpec ==
    /\ GraceInit /\ [][Next]_vars
    /\ WF_vars(graceTimerFire) /\ WF_vars(loopHead) /\ WF_vars(afterTest)

TypeOK ==
    /\ argv \in Argvs
    /\ exitCode \in {Running, ExitSuccess, ExitFailure}
    /\ isShuttingDown \in BOOLEAN
    /\ iteration \in 0..MAX_ITERATIONS
    /\ liveIntervals \in 0..MAX_ITERATIONS

(* ------------------------------ properties ----------------------------- *)
\* A session is in flight: test() has been called and runTests has not yet
\* taken its result.
InFlight == mainPc = "test" /\ tester.pc # "none"

\* test() has returned (its promise is resolved).
Returned == mainPc = "test" /\ tester.pc = "returned"

\* C1: the session of iteration i is constructed with the profile at catalog
\* position i mod length (the catalog is walked in order, wrapping to position 0
\* after the last), and any `length` consecutive visits use every profile once.
C1_RoundRobin ==
    /\ \A k \in 1..Len(visits) :
         visits[k] = IF k = 1 THEN 0
                     ELSE IF visits[k - 1] = NumProfiles - 1 THEN 0
                     ELSE visits[k - 1] + 1
    /\ \A k \in 1..Len(visits) :
         k + NumProfiles - 1 <= Len(visits) =>
           {visits[j] : j \in k..(k + NumProfiles - 1)} = 0..(NumProfiles - 1)
    /\ InFlight =>
         /\ tester.iteration = Len(visits) - 1
         /\ tester.profile = visits[Len(visits)]
         /\ tester.profile \in 0..(NumProfiles - 1)
         /\ \E q \in 0..MAX_ITERATIONS : tester.iteration = q * NumProfiles + tester.profile

\* C1 witness: the rotation has wrapped around: a session beyond the catalog's
\* length is running.
C1_Witness == InFlight /\ Len(visits) = NumProfiles + 1

\* The command line is rejected: no argument, an empty one, or one that begins
\* with neither http:// nor https://.
ArgRejected ==
    \/ Len(argv) = 0
    \/ argv[1] = <<>>
    \/ ~(startsWith(argv[1], HttpPrefix) \/ startsWith(argv[1], HttpsPrefix))

\* C2: with a missing or ill-schemed URL the first step exits with code 1, and no
\* session is ever constructed (hence no browser launched).
C2_InvalidArgumentExits ==
    /\ [](ArgRejected =>
            /\ exitCode \in {Running, ExitFailure}
            /\ mainPc = "start"
            /\ visits = <<>> /\ tester = NoTester /\ currentTest = Null)
    /\ [][ArgRejected => exitCode' = ExitFailure]_vars

\* C2 witness: a URL with a wrong scheme has made the process exit with code 1.
C2_Witness == exitCode = ExitFailure /\ Len(argv) = 1 /\ argv[1] # <<>>

\* C3: when test() returns, every resource the session holds has had close()
\* called on it and that close has settled.
C3_CleanupBeforeFinished ==
    Returned =>
      \A r \in Resources :
        tester[r] # Null =>
          tester.closeCalls[r] >= 1 /\ tester.closeState[r] \in {"closed", "failed"}

\* C4: close() is called at most once on each of page, context and browser,
\* however often cleanup() is invoked.
C4_CloseAtMostOnce ==
    \A r \in Resources : tester.closeCalls[r] <= 1

\* C4 witness: cleanup() was invoked twice (by a signal and by finally) on a
\* session that holds all three resources.
C4_Witness ==
    /\ tester.cleanupBy = {"signal", "finally"}
    /\ \A r \in Resources : tester[r] # Null /\ tester.closeCalls[r] = 1

\* C5: once runTests has returned with no signal received, the process has
\* exited with code 0.
C5_NaturalCompletionExits ==
    (mainPc = "returned" /\ ~isShuttingDown) => exitCode = ExitSuccess

\* C6: after a signal the process eventually exits with code 0, whatever the
\* session, its cleanup or the wait are doing.
C6_SignalLeadsToExit == isShuttingDown ~> (exitCode = ExitSuccess)

\* C6 witness: the process exited with code 0 while closes of the session's
\* cleanup were still pending.
C6_Witness == exitCode = ExitSuccess /\ exitDuring = "closing"

\* C7: with the flag set during the inter-visit wait, no poll tick leaves the wait
\* pending (the first one returns it), and from then on the loop constructs no
\* session: it goes to its end.
C7_InterruptibleWait ==
    /\ [][(mainPc = "sleep" /\ isShuttingDown) =>
            /\ ~(mainPc' = "sleep" /\ ticks' # ticks)
            /\ mainPc' \in {"sleep", "loop"}
            /\ visits' = visits]_vars
    /\ [][(mainPc = "loop" /\ isShuttingDown) =>
            mainPc' = "returned" /\ visits' = visits]_vars
    /\ [](waitEnd = "interrupted" =>
            /\ isShuttingDown
            /\ mainPc \in {"loop", "returned"}
            /\ Len(visits) = iteration)

\* C7 witness: a wait was interrupted at its first poll tick, before the interval
\* had elapsed, and the loop has ended.
C7_Witness ==
    /\ waitEnd = "interrupted" /\ mainPc = "returned"
    /\ ticks < SleepTicks - 1
    /\ iteration < MAX_ITERATIONS

\* C8 (as claimed): a session whose navigation status is >= 400 ends as an error
\* with httpStatus equal to that status, an error screenshot having been
\* attempted before test() cleans up.
C8_HttpErrorRecorded ==
    (Returned /\ ~isShuttingDown /\ tester.navStatus >= HTTP_ERROR_MIN) =>
      /\ tester.testResults.status = "error" /\ tester.ret = "false"
      /\ tester.errorShots = 1
      /\ tester.testResults.httpStatus = tester.navStatus

\* C8 (amended): as claimed, except that httpStatus is the status of the last
\* response >= 400 the observer saw after the navigation, and the navigation
\* status only when there was none.
C8_HttpErrorRecordedAmended ==
    (InFlight /\ tester.navStatus >= HTTP_ERROR_MIN) =>
      /\ tester.testResults.status = "error"
      /\ tester.testResults.error = "HTTP"
      /\ tester.pc \in {"errorScreenshot", "cleanup", "returned"}
      /\ tester.errorShots = 1
      /\ tester.pc = "errorScreenshot" => "finally" \notin tester.cleanupBy
      /\ tester.pc = "returned" => tester.ret = "false"
      /\ tester.testResults.httpStatus >= HTTP_ERROR_MIN
      /\ tester.testResults.httpStatus =
           IF tester.lateStatus = 0 THEN tester.navStatus ELSE tester.lateStatus

\* C8 witness: a session navigated to a 404, saw a later response with status 500
\* and has returned.
C8_Witness ==
    /\ Returned /\ tester.navStatus = 404
    /\ tester.testResults.httpStatus = 500 /\ tester.testResults.status = "error"

\* C9: a navigation timeout leads to the settle wait with nothing recorded as
\* failed; a session whose navigation timed out and that reached the capture
\* stage returns success, and one that did not was aborted by the settle wait.
C9_TimeoutNonFatal ==
    /\ [][(InFlight /\ tester.pc = "goto" /\ tester'.navOutcome = "timeout") =>
            /\ tester'.pc = "waitForTimeout"
            /\ tester'.testResults.status = "unknown"
            /\ tester'.testResults.error = Null]_vars
    /\ []((Returned /\ tester.navOutcome = "timeout") =>
            IF tester.captures = 1
            THEN tester.testResults.status = "success" /\ tester.ret = "true"
            ELSE tester.testResults.error = "waitForTimeout")

\* C9 witness: a session whose navigation timed out has returned success.
C9_Witness ==
    /\ Returned /\ tester.navOutcome = "timeout"
    /\ tester.captures = 1 /\ tester.testResults.status = "success"

\* C10: the counters add up to the visits run, successCount counts the sessions
\* that ended with status success and errorCount those that ended with status
\* error; with no failed visit the printed rate is 100.0%.
C10_CountersConsistent ==
    /\ successCount + errorCount = iteration
    /\ Len(visits) = iteration + (IF mainPc = "test" THEN 1 ELSE 0)
    /\ successCount = nSuccess
    /\ errorCount = nError
    /\ (iteration > 0 /\ nError = 0) =>
         successCount = iteration /\ errorCount = 0 /\ successRate = 1000

\* C10 witness: the loop ran to the cap with every visit a success.
C10_Witness ==
    /\ mainPc = "returned" /\ iteration = MAX_ITERATIONS
    /\ nError = 0 /\ successCount = MAX_ITERATIONS /\ successRate = 1000

\* C11: visits run one at a time and in rotation order.  While a session exists
\* it is the one of the current iteration, the only one not yet counted; a
\* session is constructed only when none exists and every earlier one has been
\* counted; and a session goes away only after its test() has returned (or with
\* the process).
C11_OneAtATime ==
    /\ [](tester.pc # "none" =>
            /\ mainPc = "test" /\ currentTest = Handle
            /\ tester.iteration = iteration
            /\ Len(visits) = iteration + 1
            /\ successCount + errorCount = iteration)
    /\ []((tester.pc = "none" /\ exitCode = Running) =>
            currentTest = Null /\ Len(visits) = iteration)
    /\ [][visits' # visits =>
            /\ tester.pc = "none" /\ mainPc = "loop"
            /\ Len(visits) = iteration
            /\ visits' = Append(visits, profileIndex(iteration))
            /\ tester'.pc = "access" /\ tester'.iteration = iteration]_vars
    /\ [][(tester.pc # "none" /\ tester'.pc = "none" /\ exitCode' = Running) =>
            /\ tester.pc = "returned" /\ tester.ret \in {"true", "false"}
            /\ iteration' = iteration + 1]_vars

\* C11 witness: the second session has been constructed, after the first one
\* returned and was counted.
C11_Witness ==
    /\ InFlight /\ tester.iteration = 1 /\ Len(visits) = 2
    /\ successCount + errorCount = 1

C13_ErrorScreenshotAlways ==
    (Returned /\ ~isShuttingDown /\ tester.testResults.status = "error") =>
      tester.errorShots = 1

\* C13 (amended): a session aborted at navigation or at the settle wait (a page
\* exists) attempts exactly one error screenshot, before test()'s cleanup; a
\* session aborted at directory ensure, browser launch, context creation or page
\* creation (no page yet) attempts none.  A session that is not aborted attempts
\* none.
C13_ErrorScreenshotAmended ==
    /\ (InFlight /\ tester.testResults.status = "error") =>
         /\ tester.pc \in {"errorScreenshot", "cleanup", "returned"}
         /\ tester.testResults.error \in
              {"mkdir", "launch", "newContext", "newPage", "HTTP", "goto", "waitForTimeout"}
         /\ tester.testResults.error \in {"HTTP", "goto", "waitForTimeout"}
              <=> tester.page # Null
         /\ tester.errorShots = IF tester.page # Null THEN 1 ELSE 0
         /\ tester.pc = "errorScreenshot" =>
              "finally" \notin tester.cleanupBy /\ tester.ret = "pending"
    /\ (InFlight /\ tester.testResults.status # "error") =>
         tester.errorShots = 0 /\ tester.pc # "errorScreenshot"

\* C13 witness: a session aborted at the settle wait has returned, one error
\* screenshot attempted.
C13_Witness ==
    /\ Returned /\ tester.testResults.status = "error"
    /\ tester.testResults.error = "waitForTimeout"
    /\ tester.page # Null /\ tester.errorShots = 1

\* The stage a session has completed when it waits at pc: 0 Idle (directory
\* ensure pending), 1 DirectoryEnsured, 2 BrowserLaunched, 3 ContextCreated,
\* 4 PageCreated, 5 Navigated, 6 Settled, 7 Captured, and 9 (Terminal) once the
\* result is decided (error screenshot, cleanup, returned).  InfoCollected is
\* passed within the step that leads from Captured to Terminal(success).
stageOf(pc) ==
    CASE pc \in {"new", "access", "mkdir"} -> 0
      [] pc = "launch" -> 1
      [] pc = "newContext" -> 2
      [] pc = "newPage" -> 3
      [] pc = "goto" -> 4
      [] pc = "waitForTimeout" -> 5
      [] pc = "screenshot" -> 6
      [] pc = "title" -> 7
      [] OTHER -> 9

\* The last stage of the session sequence (InfoCollected is 8).
Terminal == stageOf("returned")

\* What the stages before stage k have left behind when each completed without
\* an aborting failure.
earlierStagesCompleted(t, k) ==
    /\ k >= 2 => t.browser # Null
    /\ k >= 3 => t.context # Null
    /\ k >= 4 => t.page # Null
    /\ k >= 5 => t.navOutcome \in {"response", "timeout"} /\ t.navStatus < HTTP_ERROR_MIN
    /\ k >= 6 => t.captures = 1

\* C14: a session moves through its stages in order: a step leaves the stage
\* unchanged, enters the next one, or goes to Terminal; it never goes back and
\* Terminal is never left; a session starts at Idle; a stage before Terminal is
\* held only with every earlier stage completed and no failure recorded; and the
\* result becomes success only in the step from Captured through InfoCollected,
\* with every stage completed.
C14_StageOrder ==
    /\ [][(tester.pc = "none" /\ tester'.pc # "none") =>
            stageOf(tester'.pc) = 0 /\ tester'.testResults.status = "unknown"]_vars
    /\ [][(InFlight /\ tester'.pc # "none") =>
            LET a == stageOf(tester.pc)
                b == stageOf(tester'.pc) IN
            /\ b >= a
            /\ b \in {a, a + 1, Terminal}
            /\ tester'.pc # tester.pc =>
                 b > a \/ a = Terminal \/ (tester.pc = "access" /\ tester'.pc = "mkdir")
            /\ (tester'.testResults.status = "success"
                   /\ tester.testResults.status # "success") =>
                 tester.pc = "title" /\ b = Terminal]_vars
    /\ [](InFlight =>
            LET k == stageOf(tester.pc) IN
            /\ k < Terminal =>
                 /\ earlierStagesCompleted(tester, k)
                 /\ tester.testResults.status = "unknown"
                 /\ tester.testResults.error = Null
                 /\ tester.ret = "pending"
                 /\ "finally" \notin tester.cleanupBy
            /\ k < 4 => tester.navOutcome = "none"
            /\ k < 6 => tester.captures = 0
            /\ k = Terminal => tester.testResults.status \in {"success", "error"}
            /\ tester.testResults.status = "success" =>
                 /\ k = Terminal /\ tester.ret = "true"
                 /\ tester.pc \in {"cleanup", "returned"}
                 /\ earlierStagesCompleted(tester, Terminal))

\* C14 witness: a session has gone through every stage and returned success,
\* its screenshot taken.
C14_Witness ==
    /\ Returned /\ tester.testResults.status = "success"
    /\ tester.testResults.screenshotTaken /\ tester.navOutcome = "response"

\* C15: the Shutdown Flag, once set, stays set; with the flag set no session is
\* constructed and no inter-visit wait is begun (no timer of a wait is created);
\* and the only visit counted with the flag set is the one that was in flight,
\* after which every constructed session has been counted.
C15_FlagIsFinal ==
    /\ [][isShuttingDown => isShuttingDown']_vars
    /\ [][isShuttingDown =>
            /\ visits' = visits
            /\ ~(tester.pc = "none" /\ tester'.pc # "none")
            /\ ~(mainPc # "sleep" /\ mainPc' = "sleep")
            /\ liveIntervals' <= liveIntervals
            /\ timeoutPending' => timeoutPending]_vars
    /\ [][(isShuttingDown /\ iteration' # iteration) =>
            /\ InFlight /\ tester.iteration = iteration
            /\ iteration' = iteration + 1 /\ iteration' = Len(visits)
            /\ mainPc' = "loop"]_vars
    /\ []((isShuttingDown /\ mainPc \in {"loop", "returned"}) =>
            iteration = Len(visits))

\* C15 witness: the flag was set while the first session was in flight; that
\* session has been counted, no wait was begun and the loop has ended below
\* the cap.
C15_Witness ==
    /\ isShuttingDown /\ mainPc = "returned" /\ exitCode = Running
    /\ iteration = 1 /\ Len(visits) = 1 /\ waitEnd = "none"
    /\ ~timeoutPending /\ liveIntervals = 0

\* C16: a step of the response, console or page-error observer changes nothing
\* but the session's httpStatus (and the history of it), and that only to a
\* status >= 400: the session's position, result, return value and resources,
\* the loop and the process are left as they were; and every error result
\* carries the failure of a stage, never an observation.
C16_ObserversAnnotateOnly ==
    /\ [][(response \/ consoleMessage \/ pageError) =>
            /\ tester' = [tester EXCEPT
                            !.testResults.httpStatus = tester'.testResults.httpStatus,
                            !.lateStatus = tester'.lateStatus]
            /\ tester'.testResults.httpStatus # tester.testResults.httpStatus =>
                 tester'.testResults.httpStatus >= HTTP_ERROR_MIN
            /\ UNCHANGED <<procVars, loopVars, sleepVars>>]_vars
    /\ []((InFlight /\ tester.testResults.status = "error") =>
            /\ tester.testResults.error # Null
            /\ tester.testResults.error = "HTTP" <=> tester.navStatus >= HTTP_ERROR_MIN)
    /\ []((Returned /\ tester.testResults.error = Null) =>
            tester.testResults.status = "success")

\* C16 witness: the navigation answered 200, the observer then saw a response
\* with status 500, and the session returned success.
C16_Witness ==
    /\ Returned /\ tester.navStatus = 200 /\ tester.lateStatus = 500
    /\ tester.testResults.httpStatus = 500
    /\ tester.testResults.status = "success" /\ tester.ret = "true"

\* C17: a failing capture or info collection does not abort the session.  When
\* page.screenshot settles, failed or not, the session goes on to info
\* collection with no failure recorded, screenshotTaken telling whether it
\* succeeded; when page.title settles, failed or not, the session becomes a
\* success; so every session that reached the capture step ends as a success.
C17_CaptureFailureTolerated ==
    /\ [][(InFlight /\ tester.pc = "screenshot"
              /\ tester'.pc \notin {"screenshot", "none"}) =>
            /\ tester'.pc = "title"
            /\ tester'.testResults.status = "unknown"
            /\ tester'.testResults.error = Null
            /\ tester'.errorShots = 0]_vars
    /\ [][(InFlight /\ tester.pc = "title" /\ tester'.pc \notin {"title", "none"}) =>
            /\ tester'.pc \in {"cleanup", "returned"}
            /\ tester'.testResults.status = "success" /\ tester'.ret = "true"
            /\ tester'.testResults.error = Null
            /\ tester'.testResults.screenshotTaken = tester.testResults.screenshotTaken]_vars
    /\ []((Returned /\ tester.captures = 1) =>
            /\ tester.testResults.status = "success" /\ tester.ret = "true"
            /\ tester.testResults.error = Null /\ tester.errorShots = 0)
    /\ []((InFlight /\ tester.testResults.screenshotTaken) => tester.captures = 1)

\* C17 witness: with no signal received, a session whose navigation succeeded
\* and whose screenshot and info collection both failed has returned success.
C17_Witness ==
    /\ Returned /\ ~isShuttingDown /\ tester.navOutcome = "response"
    /\ tester.captures = 1
    /\ ~tester.testResults.screenshotTaken /\ ~tester.infoCollected
    /\ tester.testResults.status = "success" /\ tester.ret = "true"

\* C18: the cleanup that executes (the first invocation) calls close() on every
\* resource the session holds at that moment and on no other, before any of
\* them settles; a close that fails leaves the other closes as they are,
\* attempted and free to settle either way; and when all have settled, failed
\* or not, test()'s await of cleanup() resolves and test() returns its value.
C18_ClosesIndependent ==
    /\ [][(InFlight /\ ~tester.cleanupCalled /\ tester'.cleanupCalled) =>
            \A r \in Resources :
              /\ tester'[r] = tester[r]
              /\ IF tester[r] # Null
                 THEN tester'.closeCalls[r] = 1 /\ tester'.closeState[r] = "closing"
                 ELSE tester'.closeCalls[r] = 0 /\ tester'.closeState[r] = "open"]_vars
    /\ [][(InFlight /\ \E r \in Resources :
                         /\ tester.closeState[r] = "closing"
                         /\ tester'.closeState[r] = "failed") =>
            /\ tester'.closeCalls = tester.closeCalls
            /\ \E r \in Resources :
                 tester'.closeState = [tester.closeState EXCEPT ![r] = "failed"]]_vars
    /\ [][(InFlight /\ tester.pc = "cleanup" /\ tester'.pc \notin {"cleanup", "none"}) =>
            /\ \A r \in Resources : tester.closeState[r] # "closing"
            /\ tester' = [tester EXCEPT !.pc = "returned"]
            /\ tester.ret \in {"true", "false"}]_vars
    /\ [](InFlight => \A r \in Resources :
            /\ tester.closeState[r] # "open" <=> tester.closeCalls[r] = 1
            /\ tester.closeCalls[r] = 1 => tester.cleanupCalled /\ tester[r] # Null)

\* C18 witness: with no signal received, the closes of page and browser failed,
\* the close of the context succeeded, and test() has returned.
C18_Witness ==
    /\ Returned /\ ~isShuttingDown
    /\ tester.closeState["page"] = "failed"
    /\ tester.closeState["context"] = "closed"
    /\ tester.closeState["browser"] = "failed"
    /\ \A r \in Resources : tester.closeCalls[r] = 1

\* C19: no more sessions are constructed than the cap and the iteration counter
\* stays within it; a wait is begun only by the step that counts a visit, with
\* the flag unset and the incremented counter below the cap; and the step that
\* counts the visit reaching the cap begins no wait and creates no timer.
C19_CapAndWait ==
    /\ [](Len(visits) <= MAX_ITERATIONS /\ iteration <= MAX_ITERATIONS)
    /\ [](InFlight => tester.iteration < MAX_ITERATIONS)
    /\ [](mainPc = "sleep" => iteration \in 1..(MAX_ITERATIONS - 1))
    /\ [][(mainPc # "sleep" /\ mainPc' = "sleep") =>
            /\ Returned /\ ~isShuttingDown
            /\ iteration' = iteration + 1 /\ iteration' < MAX_ITERATIONS
            /\ timeoutPending' /\ liveIntervals' = liveIntervals + 1]_vars
    /\ [][(Returned /\ (isShuttingDown \/ iteration + 1 >= MAX_ITERATIONS)) =>
            /\ mainPc' = "loop"
            /\ UNCHANGED <<timeoutPending, liveIntervals>>]_vars
    /\ [][(liveIntervals' > liveIntervals \/ (timeoutPending' /\ ~timeoutPending)) =>
            mainPc # "sleep" /\ mainPc' = "sleep"]_vars

\* C19 witness: with the flag unset the visit reaching the cap has been counted
\* and the loop is back at its head with no wait begun.
C19_Witness ==
    /\ mainPc = "loop" /\ ~isShuttingDown
    /\ iteration = MAX_ITERATIONS /\ Len(visits) = MAX_ITERATIONS
    /\ ~timeoutPending /\ waitEnd = "expired"

\* C20: whenever the main flow is not inside an inter-visit wait, no timer of a
\* wait is pending: neither a one-shot timeout nor a flag-polling interval.
C20_NoTimerOutlivesWait ==
    (exitCode = Running /\ mainPc # "sleep") =>
      ~timeoutPending /\ liveIntervals = 0

=============================================================================
